---------------------------- MODULE Spec2Model ----------------------------
(***************************************************************************)
(* A model of the PII privacy backend: the PIIDependencyHandler pipeline   *)
(* (detect, classify, mask, respond, reconstruct) behind the messages      *)
(* endpoint of app.py, and the FakerMasking mask/unmask pair behind the    *)
(* test-pii endpoint.                                                      *)
(*                                                                         *)
(* Texts are sequences of one-character strings.  Offsets are 0-based and  *)
(* spans half-open, as in Python: the span [s, e) of t is t[s+1] .. t[e]   *)
(* in TLA+ indexing.                                                       *)
(***************************************************************************)
EXTENDS Integers, Sequences, FiniteSets, TLC

(***************************************************************************)
(* Strings                                                                 *)
(***************************************************************************)
Chars(s) == [i \in 1..Len(s) |-> SubSeq(s, i, i)]

Min(S) == CHOOSE x \in S : \A y \in S : x <= y
Max(S) == CHOOSE x \in S : \A y \in S : x >= y

Digits == {"0", "1", "2", "3", "4", "5", "6", "7", "8", "9"}
UpperSeq == Chars("ABCDEFGHIJKLMNOPQRSTUVWXYZ")
LowerSeq == Chars("abcdefghijklmnopqrstuvwxyz")
Upper == {UpperSeq[i] : i \in 1..26}
Lower == {LowerSeq[i] : i \in 1..26}
Letters == Upper \cup Lower
\* \w of the re module (ASCII part)
WordChars == Letters \cup Digits \cup {"_"}
\* \s of the re module (the part the alphabet holds)
Space == {" "}

\* str.lower() on one character
LowerChar(c) == IF c \in Upper THEN LowerSeq[CHOOSE i \in 1..26 : UpperSeq[i] = c] ELSE c
\* str.lower()
PyLower(t) == [i \in 1..Len(t) |-> LowerChar(t[i])]

\* t[a:b] with Python's clamping of the two offsets
PySlice(t, a, b) ==
    LET lo == IF a > Len(t) THEN Len(t) ELSE a
        hi == IF b > Len(t) THEN Len(t) ELSE b
    IN  IF hi <= lo THEN <<>> ELSE SubSeq(t, lo + 1, hi)

\* whether s occurs in t at 0-based offset p
OccursAt(t, s, p) == p + Len(s) <= Len(t) /\ \A k \in 1..Len(s) : t[p + k] = s[k]

\* the offsets at which s occurs in t
Occurrences(t, s) == {p \in 0..(Len(t) - Len(s)) : OccursAt(t, s, p)}

\* `s in t`
PyIn(s, t) == Occurrences(t, s) # {}

\* t.find(s): the first offset, or -1
PyFind(t, s) == IF Occurrences(t, s) = {} THEN -1 ELSE Min(Occurrences(t, s))

\* t.replace(s, r, 1): the first occurrence of s replaced by r
PyReplaceFirst(t, s, r) ==
    LET p == PyFind(t, s)
    IN  IF p = -1 \/ s = <<>> THEN t
        ELSE PySlice(t, 0, p) \o r \o PySlice(t, p + Len(s), Len(t))

\* t.replace(s, r): every occurrence of s replaced by r, left to right, no overlap
RECURSIVE PyReplaceAll(_, _, _)
PyReplaceAll(t, s, r) ==
    LET p == PyFind(t, s)
    IN  IF p = -1 \/ s = <<>> THEN t
        ELSE PySlice(t, 0, p) \o r \o PyReplaceAll(PySlice(t, p + Len(s), Len(t)), s, r)

\* the character at 1-based index i, "" outside the text
At(t, i) == IF i >= 1 /\ i <= Len(t) THEN t[i] ELSE ""

\* \b at offset p: exactly one of the characters around the offset is a word character
Boundary(t, p) == (At(t, p) \in WordChars) # (At(t, p + 1) \in WordChars)

\* the length of the longest run of characters of S that starts at offset p
RunLen(t, p, S) ==
    Max({k \in 0..(IF p > Len(t) THEN 0 ELSE Len(t) - p) : \A j \in 1..k : t[p + j] \in S})

\* \d{n} at offset p
DigitsAt(t, p, n) == p + n <= Len(t) /\ \A k \in 1..n : t[p + k] \in Digits

\* [...]? at offset p, for a class that holds no digit: 1 when the separator is there
OptSep(t, p, S) == IF At(t, p + 1) \in S THEN 1 ELSE 0

(***************************************************************************)
(* The detector's patterns (pii_patterns).  Each XxxEnd(t, p) is the end   *)
(* offset of the pattern's match that starts at offset p, or -1.           *)
(***************************************************************************)
PhoneSeps == {"-", "."} \cup Space
CardSeps == {"-"} \cup Space
EmailLocalChars == Letters \cup Digits \cup {".", "_", "%", "+", "-"}
EmailDomainChars == Letters \cup Digits \cup {".", "-"}

\* \b\d{10}\b | \b\d{3}[-.\s]?\d{3}[-.\s]?\d{4}\b
PhoneEnd(t, p) ==
    IF ~Boundary(t, p) THEN -1
    ELSE IF DigitsAt(t, p, 10) /\ Boundary(t, p + 10) THEN p + 10
    ELSE IF ~DigitsAt(t, p, 3) THEN -1
    ELSE LET q2 == p + 3 + OptSep(t, p + 3, PhoneSeps)
             q4 == q2 + 3 + OptSep(t, q2 + 3, PhoneSeps)
         IN  IF DigitsAt(t, q2, 3) /\ DigitsAt(t, q4, 4) /\ Boundary(t, q4 + 4)
             THEN q4 + 4 ELSE -1

\* \b[a-zA-Z0-9._%+-]+@[a-zA-Z0-9.-]+\.[a-zA-Z]{2,}\b
\* The local part is the whole run before the "@".  The domain is greedy: the
\* match ends after the last "." of the domain run that is followed by two or
\* more letters and then a \b (the letters are the whole run of letters).
EmailEnd(t, p) ==
    IF ~Boundary(t, p) THEN -1
    ELSE LET n == RunLen(t, p, EmailLocalChars)
             a == p + n + 1
             m == RunLen(t, a, EmailDomainChars)
             ends == {a + d + 1 + RunLen(t, a + d + 1, Letters) : d \in
                        {d \in 1..(m - 1) :
                            /\ t[a + d + 1] = "."
                            /\ RunLen(t, a + d + 1, Letters) >= 2
                            /\ At(t, a + d + 2 + RunLen(t, a + d + 1, Letters)) \notin WordChars}}
         IN  IF n >= 1 /\ At(t, p + n + 1) = "@" /\ ends # {} THEN Max(ends) ELSE -1

\* the cue alternatives of the name pattern, in the pattern's order
NameCues == <<Chars("my name is"), Chars("i am"), Chars("i'm"), Chars("call me")>>

\* \b(?:my name is|i am|i'm|call me)\s+([A-Z][a-z]+)\b with re.IGNORECASE
NameEnd(t, p) ==
    LET hits == {c \in 1..Len(NameCues) :
                    PyLower(PySlice(t, p, p + Len(NameCues[c]))) = NameCues[c]}
    IN  IF ~Boundary(t, p) \/ hits = {} THEN -1
        ELSE LET q == p + Len(NameCues[Min(hits)])
                 w == RunLen(t, q, Space)
                 l == RunLen(t, q + w, Letters)
             IN  IF w >= 1 /\ l >= 2 /\ At(t, q + w + l + 1) \notin WordChars
                 THEN q + w + l ELSE -1

\* \b\d{3}-\d{2}-\d{4}\b
SsnEnd(t, p) ==
    IF /\ Boundary(t, p) /\ DigitsAt(t, p, 3) /\ At(t, p + 4) = "-"
       /\ DigitsAt(t, p + 4, 2) /\ At(t, p + 7) = "-"
       /\ DigitsAt(t, p + 7, 4) /\ Boundary(t, p + 11)
    THEN p + 11 ELSE -1

\* \b\d{4}[-\s]?\d{4}[-\s]?\d{4}[-\s]?\d{4}\b
CreditCardEnd(t, p) ==
    IF ~(Boundary(t, p) /\ DigitsAt(t, p, 4)) THEN -1
    ELSE LET q2 == p + 4 + OptSep(t, p + 4, CardSeps)
             q3 == q2 + 4 + OptSep(t, q2 + 4, CardSeps)
             q4 == q3 + 4 + OptSep(t, q3 + 4, CardSeps)
         IN  IF /\ DigitsAt(t, q2, 4) /\ DigitsAt(t, q3, 4) /\ DigitsAt(t, q4, 4)
                /\ Boundary(t, q4 + 4)
             THEN q4 + 4 ELSE -1

\* \b\d{10}\b, the phone pattern of FakerMasking.mask_text (its email pattern is
\* the detector's)
FakerPhoneEnd(t, p) ==
    IF Boundary(t, p) /\ DigitsAt(t, p, 10) /\ Boundary(t, p + 10) THEN p + 10 ELSE -1

\* the keys of pii_patterns in the dictionary's order
pii_types == <<"phone", "email", "name", "ssn", "credit_card">>

MatchEnd(pii_type, t, p) ==
    CASE pii_type = "phone" -> PhoneEnd(t, p)
      [] pii_type = "email" -> EmailEnd(t, p)
      [] pii_type = "name" -> NameEnd(t, p)
      [] pii_type = "ssn" -> SsnEnd(t, p)
      [] pii_type = "credit_card" -> CreditCardEnd(t, p)
      [] pii_type = "faker_phone" -> FakerPhoneEnd(t, p)

\* pattern.finditer(text) from offset p on: the leftmost matches, none overlapping
RECURSIVE FindIterFrom(_, _, _)
FindIterFrom(pii_type, t, p) ==
    IF p >= Len(t) THEN <<>>
    ELSE LET e == MatchEnd(pii_type, t, p)
         IN  IF e > p THEN <<[start |-> p, end |-> e]>> \o FindIterFrom(pii_type, t, e)
             ELSE FindIterFrom(pii_type, t, p + 1)

FindIter(pii_type, t) == FindIterFrom(pii_type, t, 0)

(***************************************************************************)
(* PIIDependencyHandler: classification, detection, masking                *)
(***************************************************************************)
computation_keywords ==
    <<Chars("add"), Chars("addition"), Chars("sum"), Chars("calculate"),
      Chars("multiply"), Chars("divide"), Chars("subtract"), Chars("total"),
      Chars("count"), Chars("average"), Chars("mean"), Chars("percentage"),
      Chars("compute"), Chars("math"), Chars("arithmetic"), Chars("operation"),
      Chars("result"), Chars("answer"), Chars("solve")>>

math_indicators ==
    <<Chars("add"), Chars("sum"), Chars("calculate"), Chars("total"),
      Chars("addition"), Chars("+"), Chars("plus")>>

\* the cue list of the digit-sum responders and of the local arithmetic
sum_words == <<Chars("add"), Chars("sum"), Chars("calculate")>>

\* any(w in t for w in words)
AnyIn(words, t) == \E i \in 1..Len(words) : PyIn(words[i], t)

\* the 50 of the classifier's context window
ContextWindow == 50

\* a classifier that looks at the window for every type, not for phones only
_is_dependent_pii_AnyType(text, pii_value, pii_type) ==
    IF ~AnyIn(computation_keywords, PyLower(text)) THEN FALSE
    ELSE IF PyFind(text, pii_value) # -1
    THEN LET phone_index == PyFind(text, pii_value)
         IN  AnyIn(math_indicators,
                   PyLower(PySlice(text, Max({0, phone_index - ContextWindow}),
                                   Min({Len(text),
                                        phone_index + Len(pii_value) + ContextWindow}))))
    ELSE FALSE

_is_dependent_pii(text, pii_value, pii_type) ==
    IF ~AnyIn(computation_keywords, PyLower(text)) THEN FALSE
    ELSE IF pii_type = "phone" /\ PyFind(text, pii_value) # -1
    THEN LET phone_index == PyFind(text, pii_value)
             context_start == IF phone_index - ContextWindow < 0 THEN 0
                              ELSE phone_index - ContextWindow
             context_end == IF phone_index + Len(pii_value) + ContextWindow > Len(text)
                            THEN Len(text)
                            ELSE phone_index + Len(pii_value) + ContextWindow
         IN  AnyIn(math_indicators, PyLower(PySlice(text, context_start, context_end)))
    ELSE FALSE

\* the entities of one pattern, in finditer's order
EntitiesOf(pii_type, text) ==
    LET ms == FindIter(pii_type, text)
    IN  [i \in 1..Len(ms) |->
            [kind |-> "dict",
             value |-> PySlice(text, ms[i].start, ms[i].end),
             type |-> pii_type,
             start |-> ms[i].start,
             end |-> ms[i].end,
             is_dependent |->
                _is_dependent_pii(text, PySlice(text, ms[i].start, ms[i].end), pii_type)]]

\* a looser detector: the phone pattern without its \b, so that ten digits
\* inside a longer word are reported too
_detect_pii_entities_NoBoundary(text) ==
    LET at == {p \in 0..Len(text) : DigitsAt(text, p, 10)}
    IN  IF at = {} THEN <<>>
        ELSE <<[kind |-> "dict", value |-> PySlice(text, Min(at), Min(at) + 10),
                type |-> "phone", start |-> Min(at), end |-> Min(at) + 10,
                is_dependent |-> FALSE]>>

\* the patterns are visited in the dictionary's order, each one's matches appended
_detect_pii_entities(text) ==
    EntitiesOf(pii_types[1], text) \o EntitiesOf(pii_types[2], text)
      \o EntitiesOf(pii_types[3], text) \o EntitiesOf(pii_types[4], text)
      \o EntitiesOf(pii_types[5], text)

\* [e for e in es if P(e)] for the two partitions of the entities
DependentOf(es) == SelectSeq(es, LAMBDA e : e.is_dependent)
NonDependentOf(es) == SelectSeq(es, LAMBDA e : ~e.is_dependent)

_get_mask_for_type(pii_type) ==
    CASE pii_type = "name" -> Chars("[NAME]")
      [] pii_type = "phone" -> Chars("[PHONE]")
      [] pii_type = "email" -> Chars("[EMAIL]")
      [] pii_type = "ssn" -> Chars("[SSN]")
      [] pii_type = "credit_card" -> Chars("[CREDIT_CARD]")
      [] OTHER -> Chars("[PII]")

\* sorted(es, key=start, reverse=True): descending, and stable (entities with
\* the same start keep their order)
RECURSIVE SortedByStartDesc(_)
SortedByStartDesc(es) ==
    IF es = <<>> THEN <<>>
    ELSE LET top == Max({es[i].start : i \in 1..Len(es)})
             k == Min({i \in 1..Len(es) : es[i].start = top})
         IN  <<es[k]>> \o SortedByStartDesc(SubSeq(es, 1, k - 1) \o SubSeq(es, k + 1, Len(es)))

\* the loop of _mask_non_dependent_pii over the sorted entities: every splice
\* uses the offsets the entity had in the original text
RECURSIVE MaskLoop(_, _)
MaskLoop(masked_text, sorted_entities) ==
    IF sorted_entities = <<>> THEN masked_text
    ELSE LET entity == Head(sorted_entities)
         IN  MaskLoop(PySlice(masked_text, 0, entity.start)
                        \o _get_mask_for_type(entity.type)
                        \o PySlice(masked_text, entity.end, Len(masked_text)),
                      Tail(sorted_entities))

_mask_non_dependent_pii(text, non_dependent_entities) ==
    MaskLoop(text, SortedByStartDesc(non_dependent_entities))

(***************************************************************************)
(* Decimal numerals.  Python's integers are unbounded, so the sums of the  *)
(* responders are computed on digit sequences.                             *)
(***************************************************************************)
DigitSeq == Chars("0123456789")
DigitVal(c) == (CHOOSE i \in 1..10 : DigitSeq[i] = c) - 1

\* str(n) for a natural number n
RECURSIVE NatStr(_)
NatStr(n) == IF n < 10 THEN <<DigitSeq[n + 1]>> ELSE NatStr(n \div 10) \o <<DigitSeq[(n % 10) + 1]>>

\* a numeral without its leading zeros, as str(int(s)) prints it
RECURSIVE StripZeros(_)
StripZeros(d) == IF Len(d) > 1 /\ d[1] = "0" THEN StripZeros(Tail(d)) ELSE d

\* the digits of a + b + carry, for numerals a and b, least significant last
RECURSIVE AddDigits(_, _, _)
AddDigits(a, b, carry) ==
    IF a = <<>> /\ b = <<>> THEN (IF carry = 0 THEN <<>> ELSE <<DigitSeq[carry + 1]>>)
    ELSE LET x == IF a = <<>> THEN 0 ELSE DigitVal(a[Len(a)])
             y == IF b = <<>> THEN 0 ELSE DigitVal(b[Len(b)])
             ra == IF a = <<>> THEN <<>> ELSE SubSeq(a, 1, Len(a) - 1)
             rb == IF b = <<>> THEN <<>> ELSE SubSeq(b, 1, Len(b) - 1)
         IN  AddDigits(ra, rb, (x + y + carry) \div 10) \o <<DigitSeq[((x + y + carry) % 10) + 1]>>

\* str(sum(int(n) for n in numbers))
RECURSIVE SumOfNumerals(_)
SumOfNumerals(numbers) ==
    IF numbers = <<>> THEN <<"0">>
    ELSE StripZeros(AddDigits(Head(numbers), SumOfNumerals(Tail(numbers)), 0))

\* sum(int(d) for d in s if d.isdigit())
RECURSIVE DigitSum(_)
DigitSum(s) ==
    IF s = <<>> THEN 0
    ELSE (IF Head(s) \in Digits THEN DigitVal(Head(s)) ELSE 0) + DigitSum(Tail(s))

\* re.findall(r'\d+', t) from offset p on: the maximal runs of digits
RECURSIVE FindNumbersFrom(_, _)
FindNumbersFrom(t, p) ==
    IF p >= Len(t) THEN <<>>
    ELSE LET n == RunLen(t, p, Digits)
         IN  IF n > 0 THEN <<PySlice(t, p, p + n)>> \o FindNumbersFrom(t, p + n)
             ELSE FindNumbersFrom(t, p + 1)

\* sep.join(parts)
RECURSIVE PyJoin(_, _)
PyJoin(sep, parts) ==
    IF parts = <<>> THEN <<>>
    ELSE IF Len(parts) = 1 THEN parts[1]
    ELSE parts[1] \o sep \o PyJoin(sep, Tail(parts))

(***************************************************************************)
(* PIIDependencyHandler: the responders.  A responder either answers       *)
(* locally, or asks for the external call with a prompt, or raises.        *)
(***************************************************************************)
FALLBACK_RESPONSE ==
    Chars("I understand your message. How can I help you further while ensuring your privacy is protected?")

Local(text) == [kind |-> "local", text |-> text, exc |-> "none"]
Call(prompt) == [kind |-> "call", text |-> prompt, exc |-> "none"]
Raise(exc) == [kind |-> "raise", text |-> <<>>, exc |-> exc]

\* _generate_standard_response up to the external call: the local arithmetic
\* answers when a sum word and two numbers are there, else the text is posted
_generate_standard_response(text) ==
    LET numbers == FindNumbersFrom(text, 0)
    IN  IF AnyIn(sum_words, PyLower(text)) /\ Len(numbers) >= 2
        THEN Local(Chars("The sum of ") \o PyJoin(Chars(" + "), numbers)
                    \o Chars(" is: ") \o SumOfNumerals(numbers))
        ELSE Call(text)

\* an entry of a caller-supplied entity list is a dict or a bare string;
\* entity['type'] on a string raises TypeError
IsDict(entity) == entity.kind = "dict"

PhoneValues(dependent_entities) ==
    LET phones == SelectSeq(dependent_entities, LAMBDA e : e.type = "phone")
    IN  [i \in 1..Len(phones) |-> phones[i].value]

\* the digits of every phone, one after another
RECURSIVE Concat(_)
Concat(parts) == IF parts = <<>> THEN <<>> ELSE Head(parts) \o Concat(Tail(parts))

_generate_mixed_dependency_response(original, masked, dependent_entities) ==
    IF \E i \in 1..Len(dependent_entities) : ~IsDict(dependent_entities[i])
    THEN Raise("TypeError")
    ELSE LET phone_numbers == PhoneValues(dependent_entities)
         IN  IF phone_numbers # <<>> /\ AnyIn(sum_words, PyLower(original))
             THEN Local(Chars("I've protected your personal information while keeping the phone number for calculation. The sum of all digits in ")
                         \o phone_numbers[1] \o Chars(" is: ")
                         \o NatStr(DigitSum(Concat(phone_numbers))))
             ELSE _generate_standard_response(masked)

_generate_dependent_response(original, masked, dependent_entities) ==
    IF \E i \in 1..Len(dependent_entities) : ~IsDict(dependent_entities[i])
    THEN Raise("TypeError")
    ELSE LET phone_numbers == PhoneValues(dependent_entities)
         IN  IF phone_numbers # <<>> /\ AnyIn(sum_words, PyLower(original))
             THEN Local(Chars("I've kept your phone number for the calculation. The sum of all digits in ")
                         \o phone_numbers[1] \o Chars(" is: ")
                         \o NatStr(DigitSum(phone_numbers[1])))
             ELSE _generate_standard_response(original)

_generate_non_dependent_response(masked) == _generate_standard_response(masked)

(***************************************************************************)
(* PIIDependencyHandler._reconstruct_response                              *)
(***************************************************************************)
\* the first of the literal alternatives that occurs at offset p: its end, or -1
LiteralAltEnd(alts, t, p) ==
    LET hits == {i \in 1..Len(alts) : OccursAt(t, alts[i], p)}
    IN  IF hits = {} THEN -1 ELSE p + Len(alts[Min(hits)])

NameMaskAlts ==
    <<Chars("[NAME]"), Chars("John"), Chars("Alice"), Chars("Bob"), Chars("Sarah"),
      Chars("Mike"), Chars("Emma")>>
EmailDemoDomains == <<Chars("@example.com"), Chars("@test.com"), Chars("@demo.com")>>

\* mask_patterns: the end of the pattern's match at offset p, or -1; a type
\* without a pattern never matches
\*   name:  \[NAME\]|John|Alice|Bob|Sarah|Mike|Emma
\*   phone: \[PHONE\]|555\d{7}
\*   email: \[EMAIL\]|\w+@(?:example|test|demo)\.com
MaskPatternEnd(entity_type, t, p) ==
    CASE entity_type = "name" -> LiteralAltEnd(NameMaskAlts, t, p)
      [] entity_type = "phone" ->
            IF OccursAt(t, Chars("[PHONE]"), p) THEN p + 7
            ELSE IF OccursAt(t, Chars("555"), p) /\ DigitsAt(t, p + 3, 7) THEN p + 10
            ELSE -1
      [] entity_type = "email" ->
            IF OccursAt(t, Chars("[EMAIL]"), p) THEN p + 7
            ELSE LET n == RunLen(t, p, WordChars)
                 IN  IF n >= 1 THEN LiteralAltEnd(EmailDemoDomains, t, p + n) ELSE -1
      [] OTHER -> -1

HasMaskPattern(entity_type) == entity_type \in {"name", "phone", "email"}

\* re.sub(pattern, repl, t, count=1): the leftmost match replaced (repl holds
\* no backslash, so it is inserted as it is)
ReSubOnce(entity_type, repl, t) ==
    LET starts == {p \in 0..(Len(t) - 1) : MaskPatternEnd(entity_type, t, p) > p}
    IN  IF starts = {} THEN t
        ELSE LET p == Min(starts)
             IN  PySlice(t, 0, p) \o repl \o PySlice(t, MaskPatternEnd(entity_type, t, p), Len(t))

\* the loop of _reconstruct_response; entity.get on a bare string raises
\* AttributeError
RECURSIVE ReconstructLoop(_, _)
ReconstructLoop(reconstructed, entities) ==
    IF entities = <<>> THEN reconstructed
    ELSE LET entity == Head(entities)
         IN  IF ~entity.isDependent /\ HasMaskPattern(entity.type) /\ entity.value # <<>>
             THEN ReconstructLoop(ReSubOnce(entity.type, entity.value, reconstructed),
                                  Tail(entities))
             ELSE ReconstructLoop(reconstructed, Tail(entities))

_reconstruct_response(response, entities) ==
    IF \E i \in 1..Len(entities) : ~IsDict(entities[i])
    THEN Raise("AttributeError")
    ELSE Local(ReconstructLoop(response, entities))

(***************************************************************************)
(* FakerMasking and ModelWrapper._generate_fallback_response               *)
(***************************************************************************)
\* d[k] = v on a dict kept as its sequence of (fake, original) items: a new key
\* goes last, an existing key keeps its place and takes the new value
DictSet(d, k, v) ==
    IF \E i \in 1..Len(d) : d[i].fake = k
    THEN [i \in 1..Len(d) |-> IF d[i].fake = k THEN [fake |-> k, original |-> v] ELSE d[i]]
    ELSE Append(d, [fake |-> k, original |-> v])

\* the matches mask_text iterates over: the phones of the text, then its emails
MaskTargets(text) ==
    LET ph == FindIter("faker_phone", text)
        em == FindIter("email", text)
    IN  [i \in 1..Len(ph) |->
            [type |-> "phone", value |-> PySlice(text, ph[i].start, ph[i].end)]]
        \o [i \in 1..Len(em) |->
            [type |-> "email", value |-> PySlice(text, em[i].start, em[i].end)]]

\* one round of a loop of mask_text, for the fake value the generator drew
MaskStep(st, target, fake) ==
    [masked |-> PyReplaceFirst(st.masked, target.value, fake),
     replacements |-> DictSet(st.replacements, fake, target.value),
     detected |-> Append(st.detected, target.type)]

\* unmask_text: every fake replaced by its original, in the dict's order
RECURSIVE unmask_text(_, _)
unmask_text(text, repl) ==
    IF repl = <<>> THEN text
    ELSE unmask_text(PyReplaceAll(text, Head(repl).fake, Head(repl).original), Tail(repl))

fallback_math_words == <<Chars("sum"), Chars("add"), Chars("calculate"), Chars("digit")>>
fallback_greetings == <<Chars("my name is"), Chars("i am"), Chars("hello"), Chars("hi")>>

\* re.search(r'name\s+(\w+)', t): the group of the leftmost match, <<>> if none
NameGroup(t) ==
    LET ok == {p \in Occurrences(t, Chars("name")) :
                 /\ RunLen(t, p + 4, Space) >= 1
                 /\ RunLen(t, p + 4 + RunLen(t, p + 4, Space), WordChars) >= 1}
    IN  IF ok = {} THEN <<>>
        ELSE LET q == Min(ok) + 4 + RunLen(t, Min(ok) + 4, Space)
             IN  PySlice(t, q, q + RunLen(t, q, WordChars))

_generate_fallback_response(original, masked) ==
    LET query_lower == PyLower(original)
        numbers == FindNumbersFrom(original, 0)
    IN  IF AnyIn(fallback_math_words, query_lower) /\ numbers # <<>>
        THEN Chars("The sum of digits in ") \o numbers[1] \o Chars(" is: ")
               \o NatStr(DigitSum(numbers[1]))
        ELSE IF /\ PyIn(Chars("count"), query_lower) /\ PyIn(Chars("letter"), query_lower)
                /\ NameGroup(original) # <<>>
        THEN Chars("The name has ")
               \o NatStr(Len(SelectSeq(NameGroup(original), LAMBDA c : c \in Letters)))
               \o Chars(" letters.")
        ELSE IF AnyIn(fallback_greetings, query_lower)
        THEN Chars("Nice to meet you! Your personal information has been protected. How can I help you today?")
        ELSE Chars("I understand your request. Your privacy has been preserved. How can I assist you further?")

(***************************************************************************)
(* Inputs                                                                  *)
(***************************************************************************)
\* the number of vocabulary segments a query is made of, at most
MaxSegs == 3
\* the same for a query that comes with a caller-supplied analysis
MaxAnalysisSegs == 1

Vocabulary ==
    <<Chars("9876543210"), Chars("5551234567"), Chars("x9876543210"), Chars(" "), Chars("@b.co"),
      Chars("add "), Chars("my name is Al"), Chars("1 ")>>

\* the queries of at most n segments
Texts(n) ==
    {Concat([i \in 1..Len(f) |-> Vocabulary[f[i]]]) :
        f \in UNION {[1..k -> 1..Len(Vocabulary)] : k \in 0..n}}

\* entries of a caller-supplied entity list: entity dicts and bare type names
PhoneDict == [kind |-> "dict", value |-> Chars("9876543210"), type |-> "phone", isDependent |-> TRUE]
NameDict == [kind |-> "dict", value |-> Chars("Al"), type |-> "name", isDependent |-> FALSE]
OtherPhoneDict == [kind |-> "dict", value |-> Chars("5551234567"), type |-> "phone", isDependent |-> TRUE]
PhoneTypeName == [kind |-> "str", value |-> Chars("phone"), type |-> "", isDependent |-> FALSE]
NameTypeName == [kind |-> "str", value |-> Chars("name"), type |-> "", isDependent |-> FALSE]

NoAnalysis ==
    [present |-> FALSE, has_masked |-> FALSE, maskedQuery |-> <<>>,
     dependentEntities |-> <<>>, nonDependentEntities |-> <<>>, allEntities |-> <<>>]

\* the caller-supplied analyses: each is a non-empty dict (it always carries a
\* privacyScore), with or without a maskedQuery
Analyses ==
    {[present |-> TRUE, has_masked |-> hm,
      maskedQuery |-> IF hm THEN Chars("[NAME] 9876543210") ELSE <<>>,
      dependentEntities |-> d, nonDependentEntities |-> n, allEntities |-> d \o n] :
        hm \in BOOLEAN,
        d \in {<<>>, <<PhoneDict>>, <<PhoneTypeName>>},
        n \in {<<>>, <<NameDict>>, <<NameTypeName>>}}
    \cup
    \* two dependent phones, with and without a non-dependent name
    {[present |-> TRUE, has_masked |-> FALSE, maskedQuery |-> <<>>,
      dependentEntities |-> <<PhoneDict, OtherPhoneDict>>, nonDependentEntities |-> n,
      allEntities |-> <<PhoneDict, OtherPhoneDict>> \o n] :
        n \in {<<>>, <<NameDict>>}}

\* the values the synthetic generator can draw
FakePhones == {Chars("5551234567"), Chars("1111111111")}
FakeEmails == {Chars("ann@example.com")}

\* what the external service can do with one call
Outcomes == {"ok", "no_candidates", "malformed", "status", "timeout", "transport"}
FailedOutcomes == Outcomes \ {"ok"}

\* the texts a successful call can carry: the service is opaque, so it may
\* echo the prompt or name mask tokens of its own
ServiceTexts(prompt) == {prompt, Chars("[NAME] is [NAME]")}

(***************************************************************************)
(* State                                                                   *)
(***************************************************************************)
VARIABLES
    endpoint,       \* the route of the request: "messages" or "test_pii"
    has_text,       \* whether the request body holds the key 'text'
    user_text,      \* data['text']
    analysis,       \* data.get('pii_analysis'), NoAnalysis when absent or falsy
    pc,             \* where the request is
    stages,         \* the pipeline stages passed so far
    detector_runs,  \* how many times _detect_pii_entities was called
    entities, dependent_entities, non_dependent_entities,
    masked,         \* masked / masked_query
    context,
    prompts,        \* the texts posted to the external service, in order
    outcome,        \* what the external call did; "none" before it, "local" without it
    response,       \* the raw response (llm_response)
    final_response,
    result,         \* the record process_query returned, NoResult before
    status,         \* the HTTP status of the reply, 0 before
    exc,            \* the exception that left process_query, "none" if none did
    replacements, detected, todo,  \* mask_text: its dict, its list, the matches left
    served,         \* per request this process answered before: how many pairs its map held
    stored,         \* messages[session_id]: what is kept of each stored message
    sessions,       \* app.py's sessions: session id -> session record
    messages,       \* app.py's messages: session id -> number of messages kept
    clock,          \* datetime.now(), in whole seconds
    gen_pos,        \* how many draws the shared generator has served
    draw            \* per concurrent request: the synthetic value it is building

vars ==
    <<endpoint, has_text, user_text, analysis, pc, stages, detector_runs, entities,
      dependent_entities, non_dependent_entities, masked, context, prompts, outcome,
      response, final_response, result, status, exc, replacements, detected, todo,
      served, stored, sessions, messages, clock, gen_pos, draw>>

\* the module-level stores of app.py, and the generator the maskers share
store_vars == <<sessions, messages, clock>>
generator_vars == <<gen_pos, draw>>

\* the requests that one process serves at the same time
Requests == {"r1", "r2"}

\* no session yet
StoreEmpty == sessions = <<>> /\ messages = <<>> /\ clock = 0

\* no draw yet: per request, the values left to build, the digits drawn for
\* the value in hand, and the stream positions of its first and last digit
GeneratorIdle ==
    /\ gen_pos = 0
    /\ draw = [r \in Requests |-> [left |-> 0, drawn |-> 0, first |-> 0, last |-> 0]]

NoResult == [present |-> FALSE]

Init ==
    /\ endpoint \in {"messages", "test_pii"}
    /\ has_text \in BOOLEAN
    /\ analysis \in {NoAnalysis} \cup Analyses
    /\ analysis.present => endpoint = "messages" /\ has_text
    /\ user_text \in Texts(IF analysis.present THEN MaxAnalysisSegs ELSE MaxSegs)
    /\ ~has_text => user_text = <<>>
    /\ pc = "request"
    /\ stages = <<>>
    /\ detector_runs = 0
    /\ entities = <<>> /\ dependent_entities = <<>> /\ non_dependent_entities = <<>>
    /\ masked = <<>>
    /\ context = "none"
    /\ prompts = <<>>
    /\ outcome = "none"
    /\ response = <<>>
    /\ final_response = <<>>
    /\ result = NoResult
    /\ status = 0
    /\ exc = "none"
    /\ replacements = <<>> /\ detected = <<>> /\ todo = <<>>
    /\ served = <<>> /\ stored = <<>>
    /\ StoreEmpty /\ GeneratorIdle

(***************************************************************************)
(* The messages endpoint: handle_messages (POST) and process_query         *)
(***************************************************************************)
\* handle_messages up to the call of process_query: only a body without the
\* key 'text' is turned away
HandleMessagesPost ==
    /\ pc = "request" /\ endpoint = "messages"
    /\ IF ~has_text
       THEN /\ pc' = "replied" /\ status' = 400
            /\ UNCHANGED stages
       ELSE /\ pc' = "RECEIVED" /\ stages' = <<"RECEIVED">>
            /\ UNCHANGED status
    /\ UNCHANGED <<endpoint, has_text, user_text, analysis, detector_runs, entities,
                   dependent_entities, non_dependent_entities, masked, context, prompts,
                   outcome, response, final_response, result, exc, replacements,
                   detected, todo>>
    /\ UNCHANGED <<served, stored>>
    /\ UNCHANGED <<store_vars, generator_vars>>

\* process_query without analysis, first part: detection (which classifies
\* each match as it finds it) and the two partitions
BackendDetect ==
    /\ pc = "RECEIVED" /\ ~analysis.present
    /\ entities' = _detect_pii_entities(user_text)
    /\ dependent_entities' = DependentOf(entities')
    /\ non_dependent_entities' = NonDependentOf(entities')
    /\ detector_runs' = detector_runs + 1
    /\ stages' = stages \o <<"DETECTED", "CLASSIFIED">>
    /\ pc' = "CLASSIFIED"
    /\ UNCHANGED <<endpoint, has_text, user_text, analysis, masked, context, prompts,
                   outcome, response, final_response, result, status, exc, replacements,
                   detected, todo>>
    /\ UNCHANGED <<served, stored>>
    /\ UNCHANGED <<store_vars, generator_vars>>

BackendMask ==
    /\ pc = "CLASSIFIED"
    /\ masked' = _mask_non_dependent_pii(user_text, non_dependent_entities)
    /\ stages' = Append(stages, "SANITIZED")
    /\ pc' = "SANITIZED"
    /\ UNCHANGED <<endpoint, has_text, user_text, analysis, detector_runs, entities,
                   dependent_entities, non_dependent_entities, context, prompts, outcome,
                   response, final_response, result, status, exc, replacements, detected,
                   todo>>
    /\ UNCHANGED <<served, stored>>
    /\ UNCHANGED <<store_vars, generator_vars>>

\* process_query with an analysis, first part: the caller's masked text and
\* partition are taken as they are
AnalysisEntry ==
    /\ pc = "RECEIVED" /\ analysis.present
    /\ masked' = IF analysis.has_masked THEN analysis.maskedQuery ELSE user_text
    /\ dependent_entities' = analysis.dependentEntities
    /\ non_dependent_entities' = analysis.nonDependentEntities
    /\ entities' = analysis.allEntities
    /\ stages' = Append(stages, "SANITIZED")
    /\ pc' = "SANITIZED"
    /\ UNCHANGED <<endpoint, has_text, user_text, analysis, detector_runs, context,
                   prompts, outcome, response, final_response, result, status, exc,
                   replacements, detected, todo>>
    /\ UNCHANGED <<served, stored>>
    /\ UNCHANGED <<store_vars, generator_vars>>

\* the context both paths of process_query choose from the two partitions
ContextOf(dep, nondep) ==
    IF dep # <<>> /\ nondep # <<>> THEN "mixed_dependency"
    ELSE IF dep # <<>> THEN "dependent_only"
    ELSE IF nondep # <<>> THEN "non_dependent_only"
    ELSE "no_pii"

\* the responder of each context, with the arguments process_query gives it
ResponderOf(ctx, original, masked_text, dep) ==
    CASE ctx = "mixed_dependency" -> _generate_mixed_dependency_response(original, masked_text, dep)
      [] ctx = "dependent_only" -> _generate_dependent_response(original, masked_text, dep)
      [] ctx = "non_dependent_only" -> _generate_non_dependent_response(masked_text)
      [] ctx = "no_pii" -> _generate_standard_response(original)

\* the responder runs up to its answer, its external call or its exception
Respond ==
    /\ pc = "SANITIZED"
    /\ context' = ContextOf(dependent_entities, non_dependent_entities)
    /\ LET r == ResponderOf(ContextOf(dependent_entities, non_dependent_entities),
                            user_text, masked, dependent_entities)
       IN  CASE r.kind = "local" ->
                  /\ response' = r.text /\ outcome' = "local"
                  /\ stages' = Append(stages, "RESPONDED") /\ pc' = "RESPONDED"
                  /\ UNCHANGED <<prompts, exc>>
             [] r.kind = "call" ->
                  /\ prompts' = Append(prompts, r.text) /\ pc' = "CALLING"
                  /\ UNCHANGED <<response, outcome, stages, exc>>
             [] r.kind = "raise" ->
                  /\ exc' = r.exc /\ pc' = "RAISED"
                  /\ UNCHANGED <<response, outcome, stages, prompts>>
    /\ UNCHANGED <<endpoint, has_text, user_text, analysis, detector_runs, entities,
                   dependent_entities, non_dependent_entities, masked, final_response,
                   result, status, replacements, detected, todo>>
    /\ UNCHANGED <<served, stored>>
    /\ UNCHANGED <<store_vars, generator_vars>>

\* what the try block of _generate_standard_response raises for an outcome of
\* the call: a payload without candidates fails the subscript, a body that is
\* no JSON fails response.json(), the transport raises its own exceptions
RaisedInTry(o) ==
    CASE o = "no_candidates" -> "KeyError"
      [] o = "malformed" -> "JSONDecodeError"
      [] o = "timeout" -> "Timeout"
      [] o = "transport" -> "ConnectionError"
      [] OTHER -> "none"

\* a narrower except clause: only the exceptions of the transport are caught
StandardExcept_TransportOnly(e) == e \in {"Timeout", "ConnectionError"}

\* `except Exception as e`: every exception of the try block is caught
StandardExcept(e) == e \in {"KeyError", "JSONDecodeError", "Timeout", "ConnectionError"}

\* a responder that tries the external call a second time after a failure
ServiceReply_Retry ==
    /\ pc = "CALLING"
    /\ \E o \in Outcomes :
         /\ outcome' = o
         /\ IF o = "ok"
            THEN /\ response' \in ServiceTexts(prompts[Len(prompts)])
                 /\ stages' = Append(stages, "RESPONDED") /\ pc' = "RESPONDED"
                 /\ UNCHANGED <<exc, prompts>>
            ELSE IF Len(prompts) < 2
            THEN /\ prompts' = Append(prompts, prompts[Len(prompts)])
                 /\ UNCHANGED <<response, stages, pc, exc>>
            ELSE /\ response' = FALLBACK_RESPONSE
                 /\ stages' = Append(stages, "RESPONDED") /\ pc' = "RESPONDED"
                 /\ UNCHANGED <<exc, prompts>>
    /\ UNCHANGED <<endpoint, has_text, user_text, analysis, detector_runs, entities,
                   dependent_entities, non_dependent_entities, masked, context,
                   final_response, result, status, replacements, detected, todo>>
    /\ UNCHANGED <<served, stored>>
    /\ UNCHANGED <<store_vars, generator_vars>>

\* the external call returns: _generate_standard_response ends with the
\* candidate's text, or with the fallback string
ServiceReply ==
    /\ pc = "CALLING"
    /\ \E o \in Outcomes :
         /\ outcome' = o
         /\ IF o = "ok"
            THEN /\ response' \in ServiceTexts(prompts[Len(prompts)])
                 /\ stages' = Append(stages, "RESPONDED") /\ pc' = "RESPONDED"
                 /\ UNCHANGED exc
            ELSE IF RaisedInTry(o) = "none" \/ StandardExcept(RaisedInTry(o))
            THEN /\ response' = FALLBACK_RESPONSE
                 /\ stages' = Append(stages, "RESPONDED") /\ pc' = "RESPONDED"
                 /\ UNCHANGED exc
            ELSE /\ exc' = RaisedInTry(o) /\ pc' = "RAISED"
                 /\ UNCHANGED <<response, stages>>
    /\ UNCHANGED <<endpoint, has_text, user_text, analysis, detector_runs, entities,
                   dependent_entities, non_dependent_entities, masked, context, prompts,
                   final_response, result, status, replacements, detected, todo>>
    /\ UNCHANGED <<served, stored>>
    /\ UNCHANGED <<store_vars, generator_vars>>

\* _process_with_analysis, line 62: the response is reconstructed over allEntities
Reconstruct ==
    /\ pc = "RESPONDED" /\ endpoint = "messages" /\ analysis.present
    /\ LET r == _reconstruct_response(response, entities)
       IN  IF r.kind = "raise"
           THEN /\ exc' = r.exc /\ pc' = "RAISED"
                /\ UNCHANGED <<final_response, stages>>
           ELSE /\ final_response' = r.text
                /\ stages' = Append(stages, "RECONSTRUCTED") /\ pc' = "RECONSTRUCTED"
                /\ UNCHANGED exc
    /\ UNCHANGED <<endpoint, has_text, user_text, analysis, detector_runs, entities,
                   dependent_entities, non_dependent_entities, masked, context, prompts,
                   outcome, response, result, status, replacements, detected, todo>>
    /\ UNCHANGED <<served, stored>>
    /\ UNCHANGED <<store_vars, generator_vars>>

\* the record both paths of process_query return (privacy_score left out)
ResultRecord(detected_entities, final) ==
    [present |-> TRUE,
     original_query |-> user_text,
     masked_query |-> masked,
     detected_entities |-> detected_entities,
     dependent_entities |-> dependent_entities,
     non_dependent_entities |-> non_dependent_entities,
     context |-> context,
     privacy_preserved |-> Len(non_dependent_entities) > 0,
     computation_preserved |-> Len(dependent_entities) > 0,
     llm_response |-> response,
     final_response |-> final]

\* handle_messages, line 145: of the message it stores, the field
\* 'replacements', which is result.get('replacements', {})
StoredMessage(res) ==
    [replacements |-> IF "replacements" \in DOMAIN res THEN res.replacements ELSE <<>>]

\* _process_with_backend_analysis returns: final_response is the response;
\* handle_messages stores the message and replies
BackendReturn ==
    /\ pc = "RESPONDED" /\ endpoint = "messages" /\ ~analysis.present
    /\ final_response' = response
    /\ result' = ResultRecord(entities, response)
    /\ stages' = Append(stages, "DONE")
    /\ pc' = "DONE" /\ status' = 200
    /\ UNCHANGED <<endpoint, has_text, user_text, analysis, detector_runs, entities,
                   dependent_entities, non_dependent_entities, masked, context, prompts,
                   outcome, response, exc, replacements, detected, todo>>
    /\ stored' = Append(stored, StoredMessage(result'))
    /\ UNCHANGED served
    /\ UNCHANGED <<store_vars, generator_vars>>

\* _process_with_analysis returns
AnalysisReturn ==
    /\ pc = "RECONSTRUCTED"
    /\ result' = ResultRecord(dependent_entities \o non_dependent_entities, final_response)
    /\ stages' = Append(stages, "DONE")
    /\ pc' = "DONE" /\ status' = 200
    /\ UNCHANGED <<endpoint, has_text, user_text, analysis, detector_runs, entities,
                   dependent_entities, non_dependent_entities, masked, context, prompts,
                   outcome, response, final_response, exc, replacements, detected, todo>>
    /\ stored' = Append(stored, StoredMessage(result'))
    /\ UNCHANGED served
    /\ UNCHANGED <<store_vars, generator_vars>>

\* handle_messages, line 159: an exception out of process_query becomes a 500
HandleMessagesExcept ==
    /\ pc = "RAISED"
    /\ pc' = "replied" /\ status' = 500
    /\ UNCHANGED <<endpoint, has_text, user_text, analysis, stages, detector_runs,
                   entities, dependent_entities, non_dependent_entities, masked, context,
                   prompts, outcome, response, final_response, result, exc, replacements,
                   detected, todo>>
    /\ UNCHANGED <<served, stored>>
    /\ UNCHANGED <<store_vars, generator_vars>>

(***************************************************************************)
(* The test-pii endpoint: test_pii and ModelWrapper.process_query.  The    *)
(* handlers _initialize_handler imports are not modules of the repository, *)
(* so is_loaded is False and process_query is _fallback_processing.        *)
(***************************************************************************)
\* test_pii up to the call of mask_text
TestPiiPost ==
    /\ pc = "request" /\ endpoint = "test_pii"
    /\ IF ~has_text
       THEN /\ pc' = "replied" /\ status' = 400
            /\ UNCHANGED <<masked, todo>>
       ELSE /\ pc' = "masking"
            /\ masked' = user_text
            /\ todo' = MaskTargets(user_text)
            /\ UNCHANGED status
    /\ UNCHANGED <<endpoint, has_text, user_text, analysis, stages, detector_runs,
                   entities, dependent_entities, non_dependent_entities, context, prompts,
                   outcome, response, final_response, result, exc, replacements,
                   detected>>
    /\ UNCHANGED <<served, stored>>
    /\ UNCHANGED <<store_vars, generator_vars>>

\* one round of the phone loop or of the email loop of mask_text
MaskRound(fakes) ==
    /\ pc = "masking" /\ todo # <<>>
    /\ \E fake \in fakes :
         LET st == MaskStep([masked |-> masked, replacements |-> replacements,
                             detected |-> detected], Head(todo), fake)
         IN  /\ masked' = st.masked
             /\ replacements' = st.replacements
             /\ detected' = st.detected
    /\ todo' = Tail(todo)
    /\ UNCHANGED <<endpoint, has_text, user_text, analysis, pc, stages, detector_runs,
                   entities, dependent_entities, non_dependent_entities, context, prompts,
                   outcome, response, final_response, result, status, exc>>
    /\ UNCHANGED <<served, stored>>
    /\ UNCHANGED <<store_vars, generator_vars>>

MaskPhone == todo # <<>> /\ Head(todo).type = "phone" /\ MaskRound(FakePhones)
MaskEmail == todo # <<>> /\ Head(todo).type = "email" /\ MaskRound(FakeEmails)

\* _fallback_processing after mask_text: the local response, its unmasking,
\* and the record returned
FallbackReturn ==
    /\ pc = "masking" /\ todo = <<>>
    /\ response' = _generate_fallback_response(user_text, masked)
    /\ final_response' = unmask_text(response', replacements)
    /\ result' = [present |-> TRUE,
                  original_query |-> user_text,
                  masked_query |-> masked,
                  detected_entities |-> detected,
                  entities_masked |-> detected,
                  context |-> "General",
                  privacy_preserved |-> Len(detected) > 0,
                  llm_response |-> response',
                  final_response |-> final_response',
                  replacements |-> replacements]
    /\ outcome' = "local"
    /\ pc' = "DONE" /\ status' = 200
    /\ UNCHANGED <<endpoint, has_text, user_text, analysis, stages, detector_runs,
                   entities, dependent_entities, non_dependent_entities, masked, context,
                   prompts, exc, replacements, detected, todo>>
    /\ UNCHANGED <<served, stored>>
    /\ UNCHANGED <<store_vars, generator_vars>>

Next ==
    \/ HandleMessagesPost
    \/ BackendDetect
    \/ BackendMask
    \/ AnalysisEntry
    \/ Respond
    \/ ServiceReply
    \/ Reconstruct
    \/ BackendReturn
    \/ AnalysisReturn
    \/ HandleMessagesExcept
    \/ TestPiiPost
    \/ MaskPhone
    \/ MaskEmail
    \/ FallbackReturn

Spec == Init /\ [][Next]_vars

(***************************************************************************)
(* One process answering several requests.  model_wrapper, pii_handler and *)
(* the messages store are module-level objects of app.py; everything else  *)
(* a request works on is local to its call.                                *)
(***************************************************************************)
\* how many requests one process answers, at most
MaxRequests == 2
\* the queries of a sequence of requests: nothing, each vocabulary segment,
\* and an email address with a phone number in it
SeqTexts ==
    {<<>>, Vocabulary[1] \o Vocabulary[5]}
        \cup {Vocabulary[i] : i \in 1..Len(Vocabulary)}

\* the first request of a process: a request without analysis
SeqInit ==
    /\ endpoint \in {"messages", "test_pii"}
    /\ has_text \in BOOLEAN
    /\ analysis = NoAnalysis
    /\ user_text \in (IF has_text THEN SeqTexts ELSE {<<>>})
    /\ pc = "request"
    /\ stages = <<>>
    /\ detector_runs = 0
    /\ entities = <<>> /\ dependent_entities = <<>> /\ non_dependent_entities = <<>>
    /\ masked = <<>>
    /\ context = "none"
    /\ prompts = <<>>
    /\ outcome = "none"
    /\ response = <<>>
    /\ final_response = <<>>
    /\ result = NoResult
    /\ status = 0
    /\ exc = "none"
    /\ replacements = <<>> /\ detected = <<>> /\ todo = <<>>
    /\ served = <<>> /\ stored = <<>>
    /\ StoreEmpty /\ GeneratorIdle

\* a process whose substitution map is an attribute of the masker: the next
\* request starts with the pairs of the one before
NextRequest_KeepMap ==
    /\ pc \in {"DONE", "replied"}
    /\ Len(served) + 1 < MaxRequests
    /\ served' = Append(served, Len(replacements))
    /\ endpoint' \in {"messages", "test_pii"}
    /\ has_text' \in BOOLEAN
    /\ user_text' \in (IF has_text' THEN SeqTexts ELSE {<<>>})
    /\ pc' = "request"
    /\ stages' = <<>>
    /\ detector_runs' = 0
    /\ entities' = <<>> /\ dependent_entities' = <<>> /\ non_dependent_entities' = <<>>
    /\ masked' = <<>>
    /\ context' = "none"
    /\ prompts' = <<>>
    /\ outcome' = "none"
    /\ response' = <<>>
    /\ final_response' = <<>>
    /\ result' = NoResult
    /\ status' = 0
    /\ exc' = "none"
    /\ detected' = <<>> /\ todo' = <<>>
    /\ UNCHANGED <<analysis, stored, replacements>>
    /\ UNCHANGED <<store_vars, generator_vars>>

\* the process takes its next request: the locals of process_query and of
\* mask_text (replacements = {}, detected = [], masked = text) are bound anew
\* by the call; the messages store stays
NextRequest ==
    /\ pc \in {"DONE", "replied"}
    /\ Len(served) + 1 < MaxRequests
    /\ served' = Append(served, Len(replacements))
    /\ endpoint' \in {"messages", "test_pii"}
    /\ has_text' \in BOOLEAN
    /\ user_text' \in (IF has_text' THEN SeqTexts ELSE {<<>>})
    /\ pc' = "request"
    /\ stages' = <<>>
    /\ detector_runs' = 0
    /\ entities' = <<>> /\ dependent_entities' = <<>> /\ non_dependent_entities' = <<>>
    /\ masked' = <<>>
    /\ context' = "none"
    /\ prompts' = <<>>
    /\ outcome' = "none"
    /\ response' = <<>>
    /\ final_response' = <<>>
    /\ result' = NoResult
    /\ status' = 0
    /\ exc' = "none"
    /\ replacements' = <<>> /\ detected' = <<>> /\ todo' = <<>>
    /\ UNCHANGED <<analysis, stored>>
    /\ UNCHANGED <<store_vars, generator_vars>>

SeqNext ==
    \/ HandleMessagesPost
    \/ BackendDetect
    \/ BackendMask
    \/ Respond
    \/ ServiceReply
    \/ BackendReturn
    \/ TestPiiPost
    \/ MaskPhone
    \/ MaskEmail
    \/ FallbackReturn
    \/ NextRequest

SeqSpec == SeqInit /\ [][SeqNext]_vars

(***************************************************************************)
(* Properties                                                              *)
(***************************************************************************)
\* a request to the messages endpoint that carries a text and no analysis
BackendRequest == endpoint = "messages" /\ has_text /\ ~analysis.present

\* C1: a non-empty query without analysis always ends in a result record,
\* whatever the external call does: no exception leaves process_query (the
\* call is synchronous, so it returns unless it raises), the request is never
\* turned away, and after a failed call the response is the fallback string.
C1_AlwaysReturnsResult ==
    (BackendRequest /\ user_text # <<>>) =>
        /\ exc = "none"
        /\ pc \in {"request", "RECEIVED", "CLASSIFIED", "SANITIZED", "CALLING",
                   "RESPONDED", "DONE"}
        /\ (outcome \in FailedOutcomes) => (pc \in {"RESPONDED", "DONE"} /\ response = FALLBACK_RESPONSE)
        /\ pc = "DONE" =>
              /\ result.present /\ status = 200
              /\ (outcome \in FailedOutcomes) => result.llm_response = FALLBACK_RESPONSE

\* C1's case: a non-empty query whose external call timed out, answered
C1_Witness ==
    /\ BackendRequest /\ user_text # <<>>
    /\ pc = "DONE" /\ outcome = "timeout"
    /\ result.present /\ result.llm_response = FALLBACK_RESPONSE

\* no pattern of the detector matches anywhere in t
NoPatternMatches(t) == \A i \in 1..Len(pii_types) : FindIter(pii_types[i], t) = <<>>

\* C7: a text in which none of the five patterns matches comes back with no
\* detected entity, masked_query equal to the query, and the context no_pii.
C7_NoPatternNoEntities ==
    (BackendRequest /\ pc = "DONE" /\ NoPatternMatches(user_text)) =>
        /\ result.detected_entities = <<>>
        /\ result.masked_query = result.original_query
        /\ result.original_query = user_text
        /\ result.context = "no_pii"

\* C7's case: a query with digits and words but no PII, answered
C7_Witness ==
    /\ BackendRequest /\ pc = "DONE" /\ NoPatternMatches(user_text)
    /\ user_text = Chars("x9876543210")
    /\ result.detected_entities = <<>> /\ result.context = "no_pii"

\* the positions of the backend path from the masking step on
AfterMasking == {"SANITIZED", "CALLING", "RESPONDED", "DONE"}

\* C2: the sanitized text holds no substring equal to the value of an entity
\* that was detected and classified non-dependent, after
\* _mask_non_dependent_pii and after mask_text (which masks every match),
\* also when the value occurs more than once in the text.
C2_NoOriginalValueInMasked ==
    /\ (BackendRequest /\ pc \in AfterMasking) =>
          \A i \in 1..Len(non_dependent_entities) :
              ~PyIn(non_dependent_entities[i].value, masked)
    /\ (endpoint = "test_pii" /\ pc = "DONE") =>
          \A i \in 1..Len(MaskTargets(user_text)) :
              ~PyIn(MaskTargets(user_text)[i].value, result.masked_query)

\* C3: every prompt posted to the external service is the sanitized text that
\* the result reports as masked_query, on both paths and in every context.
C3_PromptIsMaskedQuery ==
    endpoint = "messages" => \A i \in 1..Len(prompts) : prompts[i] = masked

\* C4: after _mask_non_dependent_pii every entity classified dependent is
\* still in the sanitized text verbatim, also when its span lies inside the
\* span of a non-dependent entity.
C4_DependentVerbatim ==
    (BackendRequest /\ pc \in AfterMasking) =>
        \A i \in 1..Len(dependent_entities) : PyIn(dependent_entities[i].value, masked)

\* C5: round trip: for every text and every sequence of drawn values,
\* unmask_text over what mask_text returned gives the original text back.
C5_RoundTrip ==
    (endpoint = "test_pii" /\ pc = "DONE") =>
        unmask_text(result.masked_query, result.replacements) = user_text

\* C6: reconstruction is idempotent: a second pass of _reconstruct_response
\* over the same entities, and a second pass of unmask_text over the same
\* map, change nothing.
C6_ReconstructionIdempotent ==
    /\ pc = "RECONSTRUCTED" =>
          _reconstruct_response(final_response, entities).text = final_response
    /\ (endpoint = "test_pii" /\ pc = "DONE") =>
          \A t \in {result.llm_response, result.masked_query} :
              unmask_text(unmask_text(t, replacements), replacements)
                  = unmask_text(t, replacements)

\* C8: a request to the messages endpoint whose text is missing or empty is
\* answered with a validation error (400); detection is not run and the
\* external service is not called.
C8_EmptyQueryRejected ==
    (endpoint = "messages" /\ (~has_text \/ user_text = <<>>)) =>
        /\ detector_runs = 0
        /\ prompts = <<>>
        /\ pc \in {"replied", "DONE"} => status = 400

\* C9: a call without analysis passes RECEIVED, DETECTED, CLASSIFIED,
\* SANITIZED, RESPONDED, RECONSTRUCTED, DONE in that order, and no mask token
\* of a masked entity is left in final_response.
C9_AllStagesReconstructed ==
    (BackendRequest /\ pc = "DONE") =>
        /\ stages = <<"RECEIVED", "DETECTED", "CLASSIFIED", "SANITIZED", "RESPONDED",
                      "RECONSTRUCTED", "DONE">>
        /\ \A i \in 1..Len(non_dependent_entities) :
              ~PyIn(_get_mask_for_type(non_dependent_entities[i].type),
                    result.final_response)

\* C10: with a caller-supplied analysis, whose lists hold entity records or
\* bare type names, detection is not run, the call returns a result, and its
\* context and flags follow from which of the two caller lists are non-empty.
C10_AnalysisTrusted ==
    analysis.present =>
        /\ detector_runs = 0
        /\ exc = "none" /\ pc # "RAISED"
        /\ pc \in {"replied", "DONE"} =>
              /\ status = 200 /\ result.present
              /\ result.context =
                    CASE analysis.dependentEntities # <<>>
                             /\ analysis.nonDependentEntities # <<>> -> "mixed_dependency"
                      [] analysis.dependentEntities # <<>>
                             /\ analysis.nonDependentEntities = <<>> -> "dependent_only"
                      [] analysis.dependentEntities = <<>>
                             /\ analysis.nonDependentEntities # <<>> -> "non_dependent_only"
                      [] OTHER -> "no_pii"
              /\ result.privacy_preserved = (analysis.nonDependentEntities # <<>>)
              /\ result.computation_preserved = (analysis.dependentEntities # <<>>)

\* the positions of the backend path from the classification on
AfterClassification == {"CLASSIFIED"} \cup AfterMasking

\* the types the classifier never marks dependent
NeverDependentTypes == {"name", "email", "ssn", "credit_card"}

\* C11: a detected entity is dependent only if the text holds a computation
\* cue word, and nothing of type name, email, ssn or credit_card is ever
\* dependent: neither a detected entity of such a type, nor a detected value
\* classified under such a type.
C11_ClassificationPolicy ==
    (BackendRequest /\ pc \in AfterClassification) =>
        \A i \in 1..Len(entities) :
            /\ entities[i].is_dependent =>
                  \E k \in 1..Len(computation_keywords) :
                      PyIn(computation_keywords[k], PyLower(user_text))
            /\ entities[i].type \in NeverDependentTypes => ~entities[i].is_dependent
            /\ \A ty \in NeverDependentTypes :
                  ~_is_dependent_pii(user_text, entities[i].value, ty)

\* C11's case: a cue word next to a phone inside an email: the phone is
\* dependent, the email is not
C11_Witness ==
    /\ BackendRequest /\ pc = "CLASSIFIED"
    /\ PyIn(Chars("add"), PyLower(user_text))
    /\ \E i \in 1..Len(entities) : entities[i].type = "phone" /\ entities[i].is_dependent
    /\ \E i \in 1..Len(entities) : entities[i].type = "email" /\ ~entities[i].is_dependent

\* what mask_text can return for a text in a process that has masked nothing
\* before: every final state of its two loops, over the values drawn
RECURSIVE MaskAll(_, _)
MaskAll(st, targets) ==
    IF targets = <<>> THEN {st}
    ELSE UNION {MaskAll(MaskStep(st, Head(targets), fake), Tail(targets)) :
                    fake \in (IF Head(targets).type = "phone" THEN FakePhones
                              ELSE FakeEmails)}

FreshMaskResults(text) ==
    MaskAll([masked |-> text, replacements |-> <<>>, detected |-> <<>>], MaskTargets(text))

\* C12: whatever the process answered before, a request's masked_query,
\* replacements and final_response are what a process without a past gives
\* for the same text and draws: the map holds only pairs made for this
\* request, the response is reconstructed with that map only, the handler of
\* the messages endpoint keeps no map, and no stored message holds pairs.
C12_MapScopedToRequest ==
    /\ (endpoint = "test_pii" /\ pc = "DONE") =>
          \E st \in FreshMaskResults(user_text) :
              /\ result.masked_query = st.masked
              /\ result.replacements = st.replacements
              /\ result.final_response =
                    unmask_text(_generate_fallback_response(user_text, st.masked),
                                st.replacements)
    /\ (endpoint = "messages" /\ pc = "DONE") =>
          /\ "replacements" \notin DOMAIN result
          /\ result.masked_query =
                _mask_non_dependent_pii(user_text,
                                        NonDependentOf(_detect_pii_entities(user_text)))
          /\ result.final_response = result.llm_response
    /\ \A i \in 1..Len(stored) : stored[i].replacements = <<>>

\* C12's case: a request that made pairs, answered by a process whose
\* earlier request had made a pair too
C12_Witness ==
    /\ Len(served) = 1 /\ served[1] > 0
    /\ endpoint = "test_pii" /\ pc = "DONE"
    /\ Len(result.replacements) > 0
    /\ result.replacements[1].original # result.masked_query

\* a computation cue word stands in the text as a word of its own, within
\* the window around the span [start, end)
CueWordNear(text, start, end) ==
    \E k \in 1..Len(computation_keywords) :
        \E p \in Occurrences(PyLower(text), computation_keywords[k]) :
            /\ Boundary(text, p)
            /\ Boundary(text, p + Len(computation_keywords[k]))
            /\ p >= start - ContextWindow
            /\ p + Len(computation_keywords[k]) <= end + ContextWindow

\* C13: a phone entity is dependent only if a computation cue word lies
\* within 50 characters of the entity's own span; a cue that is a fragment of
\* another word, or outside the window, does not count.
C13_PhoneCueInWindow ==
    (BackendRequest /\ pc \in AfterClassification) =>
        \A i \in 1..Len(entities) :
            (entities[i].type = "phone" /\ entities[i].is_dependent) =>
                CueWordNear(user_text, entities[i].start, entities[i].end)

\* C14: the entities the detector returns are ordered by start ascending,
\* also when entities of different types are interleaved in the text.
C14_OrderedByStart ==
    (BackendRequest /\ pc \in AfterClassification) =>
        \A i \in 1..(Len(entities) - 1) : entities[i].start <= entities[i + 1].start

\* the span of a lies inside the span of b
SpanInside(a, b) == b.start <= a.start /\ a.end <= b.end

\* C15: the detector's output never holds two entities of different types
\* with the span of one inside the span of the other.
C15_NoContainedSpans ==
    (BackendRequest /\ pc \in AfterClassification) =>
        \A i, j \in 1..Len(entities) :
            entities[i].type # entities[j].type => ~SpanInside(entities[i], entities[j])

\* the text from offset from on, with the spans of the set es (pairwise
\* disjoint) replaced by their masks
RECURSIVE SpansReplaced(_, _, _)
SpansReplaced(text, es, from) ==
    IF es = {} THEN PySlice(text, from, Len(text))
    ELSE LET e == CHOOSE x \in es : \A y \in es : x.start <= y.start
         IN  PySlice(text, from, e.start) \o _get_mask_for_type(e.type)
                 \o SpansReplaced(text, es \ {e}, e.end)

\* no two entries of es share a character
DisjointSpans(es) ==
    \A i, j \in 1..Len(es) : i # j => (es[i].end <= es[j].start \/ es[j].end <= es[i].start)

\* C16: the result of _mask_non_dependent_pii is the text with exactly the
\* entity spans replaced by their masks: for disjoint spans it is that text,
\* and for every list the characters before the first span and after the
\* last span are kept as they are.
C16_OnlySpansReplaced ==
    (BackendRequest /\ pc \in AfterMasking /\ non_dependent_entities # <<>>) =>
        LET es == non_dependent_entities
            first == Min({es[i].start : i \in 1..Len(es)})
            last == Max({es[i].end : i \in 1..Len(es)})
        IN  /\ DisjointSpans(es) =>
                  masked = SpansReplaced(user_text, {es[i] : i \in 1..Len(es)}, 0)
            /\ PySlice(masked, 0, first) = PySlice(user_text, 0, first)
            /\ Len(masked) >= Len(user_text) - last
            /\ PySlice(masked, Len(masked) - (Len(user_text) - last), Len(masked))
                   = PySlice(user_text, last, Len(user_text))

\* C17: after mask_text the map holds one key per masked match (a drawn value
\* that is a key already is drawn again), and every key occurs in the
\* sanitized text, for every sequence of draws.
C17_MapInvariant ==
    (endpoint = "test_pii" /\ pc = "DONE") =>
        /\ Len(result.replacements) = Len(MaskTargets(user_text))
        /\ \A i \in 1..Len(result.replacements) :
              PyIn(result.replacements[i].fake, result.masked_query)

\* C18: the response is computed locally only after a call of the external
\* service has failed; when the service answers, llm_response is the text of
\* its payload.
C18_LocalOnlyAsFallback ==
    (endpoint = "messages" /\ pc \in {"RESPONDED", "RECONSTRUCTED", "DONE"}) =>
        /\ Len(prompts) >= 1
        /\ outcome \in Outcomes
        /\ outcome = "ok" => response \in ServiceTexts(prompts[Len(prompts)])
        /\ outcome \in FailedOutcomes => response = FALLBACK_RESPONSE

\* C19: a request calls the external service at most once: after a failed
\* attempt, of whatever kind, no second prompt is posted and the response is
\* the fallback string.
C19_AtMostOneCall ==
    /\ Len(prompts) <= 1
    /\ outcome \in FailedOutcomes =>
          /\ Len(prompts) = 1
          /\ pc # "CALLING"
          /\ response = FALLBACK_RESPONSE

\* C19's case: the service answered with a non-200 status, and the request
\* was answered with the fallback after the one call
C19_Witness ==
    /\ pc = "DONE" /\ outcome = "status"
    /\ Len(prompts) = 1
    /\ result.llm_response = FALLBACK_RESPONSE

\* the dependent entities that are phone records
DependentPhones ==
    SelectSeq(dependent_entities, LAMBDA e : e.kind = "dict" /\ e.type = "phone")

\* the text ends with the words that give v and the sum of v's digits
NamesDigitSum(text, v) ==
    LET tail == Chars("in ") \o v \o Chars(" is: ") \o NatStr(DigitSum(v))
    IN  /\ Len(text) >= Len(tail)
        /\ PySlice(text, Len(text) - Len(tail), Len(text)) = tail

\* C20: for a query with a dependent phone and one of the cues add, sum,
\* calculate, every dependent phone value is still in masked_query, and the
\* response names one of the dependent phones with the sum of that phone's
\* digits, in the dependent_only and in the mixed_dependency context, also
\* with several dependent phones.
C20_DigitSumResponder ==
    (/\ endpoint = "messages" /\ pc \in {"RESPONDED", "RECONSTRUCTED", "DONE"}
     /\ DependentPhones # <<>>
     /\ AnyIn(sum_words, PyLower(user_text))) =>
        /\ ~analysis.present =>
              \A i \in 1..Len(DependentPhones) : PyIn(DependentPhones[i].value, masked)
        /\ \E i \in 1..Len(DependentPhones) :
              NamesDigitSum(response, DependentPhones[i].value)


(***************************************************************************)
(* Two requests served at the same time: app.run serves each request in    *)
(* its own thread, and every masker draws from the one generator           *)
(***************************************************************************)
\* the variables of the single-request pipeline
pipeline_vars ==
    <<endpoint, has_text, user_text, analysis, pc, stages, detector_runs,
      entities, dependent_entities, non_dependent_entities, masked, context,
      prompts, outcome, response, final_response, result, status, exc,
      replacements, detected, todo, served, stored>>

\* the pipeline before any request
PipelineIdle ==
    /\ endpoint = "test_pii" /\ has_text = TRUE /\ user_text = <<>>
    /\ analysis = NoAnalysis
    /\ pc = "request"
    /\ stages = <<>>
    /\ detector_runs = 0
    /\ entities = <<>> /\ dependent_entities = <<>> /\ non_dependent_entities = <<>>
    /\ masked = <<>>
    /\ context = "none"
    /\ prompts = <<>>
    /\ outcome = "none"
    /\ response = <<>>
    /\ final_response = <<>>
    /\ result = NoResult
    /\ status = 0
    /\ exc = "none"
    /\ replacements = <<>> /\ detected = <<>> /\ todo = <<>>
    /\ served = <<>> /\ stored = <<>>

\* the phones one request's text may hold
MaxValues == 1

\* range(10): the digits of one fake phone
PhoneDigits == 10

\* both requests are inside mask_text, each with the phone matches of its text
\* still to replace
ConcInit ==
    /\ PipelineIdle
    /\ StoreEmpty
    /\ gen_pos = 0
    /\ draw \in [Requests -> {[left |-> k, drawn |-> 0, first |-> 0, last |-> 0] :
                                k \in 1..MaxValues}]

\* one self.fake.random_digit() of the list comprehension, called by request
\* r: it takes the next position of the shared stream. Nothing guards the
\* call, so it is enabled whatever the other request is doing
random_digit(r) ==
    /\ draw[r].left > 0
    /\ draw[r].drawn < PhoneDigits
    /\ gen_pos' = gen_pos + 1
    /\ draw' = [draw EXCEPT ![r] =
                  [left  |-> @.left,
                   drawn |-> @.drawn + 1,
                   first |-> IF @.drawn = 0 THEN gen_pos ELSE @.first,
                   last  |-> gen_pos]]
    /\ UNCHANGED <<pipeline_vars, store_vars>>

\* ''.join(...) and the rest of the loop body: the value is complete and the
\* loop moves to the next match
JoinDigits(r) ==
    /\ draw[r].drawn = PhoneDigits
    /\ draw' = [draw EXCEPT ![r] =
                  [left |-> @.left - 1, drawn |-> 0, first |-> 0, last |-> 0]]
    /\ UNCHANGED gen_pos
    /\ UNCHANGED <<pipeline_vars, store_vars>>

ConcNext ==
    \/ \E r \in Requests : random_digit(r)
    \/ \E r \in Requests : JoinDigits(r)

ConcSpec == ConcInit /\ [][ConcNext]_vars

\* C21: the draws that build one request's synthetic value are never
\* interleaved with another request's draws: the digits a request has drawn
\* for the value in hand sit at consecutive positions of the shared stream.
C21_DrawsNotInterleaved ==
    \A r \in Requests :
        draw[r].drawn > 0 => draw[r].last - draw[r].first = draw[r].drawn - 1


(***************************************************************************)
(* The session store of app.py: sessions and messages, keyed by session id *)
(***************************************************************************)
\* the seconds that pass, the sessions kept at once, the messages of a session
MaxClock == 1
MaxSessions == 2
MaxMessages == 1

\* f"session_{now:%Y%m%d_%H%M%S}_{len(sessions)}": the second and the number
\* of sessions stored, and nothing else
SessionId(second, count) == <<second, count>>

\* the ids a client may put in the URL
SessionIds == {SessionId(c, n) : c \in 0..MaxClock, n \in 0..(MaxSessions - 1)}

\* data.get('title', 'New Chat')
Titles == {"New Chat", "Work"}

\* d[k] = v and del d[k] on a dict
PySetItem(d, k, v) == [i \in DOMAIN d \cup {k} |-> IF i = k THEN v ELSE d[i]]
PyDelItem(d, k) == [i \in DOMAIN d \ {k} |-> d[i]]

StoreInit ==
    /\ PipelineIdle
    /\ StoreEmpty
    /\ GeneratorIdle

\* POST /api/sessions: the id is built from the clock and len(sessions), then
\* both stores are assigned at that id
create_session(title) ==
    /\ Cardinality(DOMAIN sessions) < MaxSessions
    /\ sessions' = PySetItem(sessions,
                             SessionId(clock, Cardinality(DOMAIN sessions)),
                             [title |-> title])
    /\ messages' = PySetItem(messages,
                             SessionId(clock, Cardinality(DOMAIN sessions)), 0)
    /\ UNCHANGED clock
    /\ UNCHANGED <<pipeline_vars, generator_vars>>

\* DELETE /api/sessions/<id>: 404 and no change for an id that is not stored
delete_session(session_id) ==
    /\ IF session_id \in DOMAIN sessions
       THEN /\ sessions' = PyDelItem(sessions, session_id)
            /\ messages' = PyDelItem(messages, session_id)
       ELSE UNCHANGED <<sessions, messages>>
    /\ UNCHANGED clock
    /\ UNCHANGED <<pipeline_vars, generator_vars>>

\* GET or POST /api/sessions/<id>/messages, as far as the stores go: a session
\* that is not stored is created first, whatever the method; a message is
\* appended only by a POST with a text whose processing did not raise
handle_messages(session_id, appends) ==
    /\ session_id \notin DOMAIN sessions
          => Cardinality(DOMAIN sessions) < MaxSessions
    /\ sessions' = IF session_id \in DOMAIN sessions
                   THEN sessions
                   ELSE PySetItem(sessions, session_id,
                                  [title |-> "Auto-created Chat"])
    /\ appends => (IF session_id \in DOMAIN messages
                   THEN messages[session_id] ELSE 0) < MaxMessages
    /\ messages' = PySetItem(messages, session_id,
                             (IF session_id \in DOMAIN sessions
                              THEN messages[session_id] ELSE 0)
                             + (IF appends THEN 1 ELSE 0))
    /\ UNCHANGED clock
    /\ UNCHANGED <<pipeline_vars, generator_vars>>

\* POST /api/clear-history
clear_history ==
    /\ sessions' = <<>>
    /\ messages' = <<>>
    /\ UNCHANGED clock
    /\ UNCHANGED <<pipeline_vars, generator_vars>>

\* a second passes
Tick ==
    /\ clock < MaxClock
    /\ clock' = clock + 1
    /\ UNCHANGED <<sessions, messages>>
    /\ UNCHANGED <<pipeline_vars, generator_vars>>

StoreNext ==
    \/ \E title \in Titles : create_session(title)
    \/ \E session_id \in SessionIds : delete_session(session_id)
    \/ \E session_id \in SessionIds, appends \in BOOLEAN :
           handle_messages(session_id, appends)
    \/ clear_history
    \/ Tick

StoreSpec == StoreInit /\ [][StoreNext]_vars

\* C22: create_session returns an id that is not the id of a stored session,
\* so a create step keeps every stored session: its record and its messages
\* are after the step what they were before it.
C22_CreateKeepsSessions ==
    [][(\E title \in Titles : create_session(title)) =>
          /\ SessionId(clock, Cardinality(DOMAIN sessions)) \notin DOMAIN sessions
          /\ \A s \in DOMAIN sessions :
                /\ s \in DOMAIN sessions'
                /\ sessions'[s] = sessions[s]
                /\ messages'[s] = messages[s]]_vars

=============================================================================
